---- MODULE Spec2Model ----
(***************************************************************************)
(* A model of the KOSMOS-2 processor                                       *)
(* (src/src/transformers/models/kosmos2/processing_kosmos2.py).            *)
(*                                                                         *)
(* A Python str is a sequence of one-character strings; offsets are        *)
(* 0-based as in Python (Slice(s, a, b) is s[a:b]).  A Python float that   *)
(* holds a coordinate is an exact rational, a pair <<numerator,            *)
(* denominator>> in lowest terms.                                          *)
(***************************************************************************)
EXTENDS Integers, Sequences, FiniteSets, TLC

VARIABLES
    pc,           \* position of the text pipeline
    in_text,      \* the text handed to the pipeline
    in_bboxes,    \* the bboxes handed to the pipeline
    text,         \* the current text
    prev_text,    \* the text before the last rewriting step
    norm_runs,    \* how often _add_remove_spaces_around_tag_tokens ran
    entities,     \* the entities of the last extraction
    grid,         \* num_patches_per_side of the last decoding, 0 before it
    call,         \* the state of one Kosmos2Processor.__call__
    quant         \* the state of one coordinate conversion

vars == <<pc, in_text, in_bboxes, text, prev_text, norm_runs, entities, grid, call, quant>>

-----------------------------------------------------------------------------
(* Bounds of the model.                                                    *)

\* number of pieces a text for the tag spacing normalizer is made of
MaxNormPieces == 4

\* number of pieces a text for the phrase-bbox inserter is made of
MaxInsertPieces == 3

\* number of bbox groups handed to the phrase-bbox inserter
MaxGroups == 2

\* number of pieces a generated text for the entity extractor is made of
MaxDecodePieces == 3

\* number of examples in a batch handed to __call__
MaxBatch == 2

\* number of word tokens of an example's text
MaxWords == 2

\* largest denominator of a box coordinate
MaxDenominator == 4

\* largest number of patches per side of the coordinate conversions
MaxGridSide == 4
MaxPipelinePieces == 2

-----------------------------------------------------------------------------
(* Python str and list primitives.                                         *)

Min(S) == CHOOSE x \in S : \A y \in S : x <= y

Max(S) == CHOOSE x \in S : \A y \in S : x >= y

\* s[a:b] for 0 <= a and b <= len(s)
Slice(s, a, b) == SubSeq(s, a + 1, b)

\* s[a:]
SliceFrom(s, a) == SubSeq(s, a + 1, Len(s))

\* s[i:].startswith(lit)
StartsWithAt(s, i, lit) ==
    /\ i + Len(lit) <= Len(s)
    /\ \A k \in 1..Len(lit) : s[i + k] = lit[k]

\* the offset of the first c at or after offset i, len(s) if there is none
RECURSIVE Find(_, _, _)
Find(s, c, i) == IF i >= Len(s) \/ s[i + 1] = c THEN i ELSE Find(s, c, i + 1)

\* the offset of the first "<" at or after offset i, len(s) if there is none:
\* every match of the patterns below starts with "<", and [^<]+ stops there
NextLt(s, i) == Find(s, "<", i)

\* the offset of the first occurrence of lit (which starts with "<") at or
\* after offset i, -1 if there is none
RECURSIVE FindLit(_, _, _)
FindLit(s, lit, i) ==
    LET j == NextLt(s, i) IN
    IF j >= Len(s) THEN -1
    ELSE IF StartsWithAt(s, j, lit) THEN j
    ELSE FindLit(s, lit, j + 1)

\* "".join(list)
RECURSIVE Join(_)
Join(list) == IF list = <<>> THEN <<>> ELSE Head(list) \o Join(Tail(list))

\* sep.join(list)
RECURSIVE JoinWith(_, _)
JoinWith(sep, list) ==
    IF list = <<>> THEN <<>>
    ELSE IF Len(list) = 1 THEN list[1]
    ELSE list[1] \o sep \o JoinWith(sep, Tail(list))

\* the characters str.strip / lstrip / rstrip remove
Whitespace == {" ", "\t", "\n"}

\* the length of s[:n] without its trailing whitespace
RECURSIVE RstripLen(_, _)
RstripLen(s, n) == IF n > 0 /\ s[n] \in Whitespace THEN RstripLen(s, n - 1) ELSE n

\* the number of whitespace characters s[i:] starts with
RECURSIVE LeadingWhitespace(_, _)
LeadingWhitespace(s, i) ==
    IF i < Len(s) /\ s[i + 1] \in Whitespace THEN 1 + LeadingWhitespace(s, i + 1) ELSE 0

\* s.rstrip()
rstrip(s) == SubSeq(s, 1, RstripLen(s, Len(s)))

\* s.lstrip()
lstrip(s) == SliceFrom(s, LeadingWhitespace(s, 0))

strip(s) == lstrip(rstrip(s))

DigitChars == <<"0", "1", "2", "3", "4", "5", "6", "7", "8", "9">>

IsDigit(c) == c \in {DigitChars[k] : k \in 1..10}

DigitValue(c) == (CHOOSE k \in 1..10 : DigitChars[k] = c) - 1

\* str(n) of a non-negative int
RECURSIVE StrNat(_)
StrNat(n) ==
    IF n < 10 THEN <<DigitChars[n + 1]>> ELSE StrNat(n \div 10) \o <<DigitChars[(n % 10) + 1]>>

\* str(n)
str(n) == IF n < 0 THEN <<"-">> \o StrNat(-n) ELSE StrNat(n)

\* s.zfill(width): zeros go after a leading sign
RECURSIVE zfill(_, _)
zfill(s, width) ==
    IF Len(s) >= width THEN s
    ELSE IF s # <<>> /\ s[1] = "-" THEN <<"-">> \o zfill(Tail(s), width - 1)
    ELSE zfill(<<"0">> \o s, width)

\* int(s) of a string of decimal digits
RECURSIVE int(_)
int(s) ==
    IF s = <<>> THEN 0 ELSE 10 * int(SubSeq(s, 1, Len(s) - 1)) + DigitValue(s[Len(s)])

-----------------------------------------------------------------------------
(* The tag grammar.                                                        *)

PhraseOpen == <<"<", "p", "h", "r", "a", "s", "e", ">">>
PhraseClose == <<"<", "/", "p", "h", "r", "a", "s", "e", ">">>
ObjectOpen == <<"<", "o", "b", "j", "e", "c", "t", ">">>
ObjectClose == <<"<", "/", "o", "b", "j", "e", "c", "t", ">">>
Delimiter ==
    <<"<", "/", "d", "e", "l", "i", "m", "i", "t", "e", "r", "_", "o", "f", "_",
      "m", "u", "l", "t", "i", "_", "o", "b", "j", "e", "c", "t", "s", "/", ">">>
ImageOpen == <<"<", "i", "m", "a", "g", "e", ">">>
ImageClose == <<"<", "/", "i", "m", "a", "g", "e", ">">>
PatchIndexPrefix == <<"<", "p", "a", "t", "c", "h", "_", "i", "n", "d", "e", "x", "_">>

\* tokenizer.tag_tokens
TagTokens == {ImageOpen, ImageClose, PhraseOpen, PhraseClose, ObjectOpen, ObjectClose, Delimiter}

\* tokenizer.num_patch_index_tokens
NumPatchIndexTokens == 1024

\* f"<patch_index_{str(idx).zfill(4)}>"
PatchIndexToken(idx) == PatchIndexPrefix \o zfill(str(idx), 4) \o <<">">>

-----------------------------------------------------------------------------
(* Kosmos2Processor._add_remove_spaces_around_tag_tokens                   *)

\* The length of the alternative of `pattern` that matches at offset i, 0 if
\* none does: a tag of tokenizer.tag_tokens or one of the patch index tokens
\* <patch_index_0000> .. <patch_index_{num_patch_index_tokens - 1}>.
TagLenAt(s, i) ==
    IF i >= Len(s) \/ s[i + 1] # "<" THEN 0
    ELSE IF \E t \in TagTokens : StartsWithAt(s, i, t)
         THEN Len(CHOOSE t \in TagTokens : StartsWithAt(s, i, t))
    ELSE IF /\ StartsWithAt(s, i, PatchIndexPrefix)
            /\ i + 18 <= Len(s)
            /\ \A k \in 14..17 : IsDigit(s[i + k])
            /\ s[i + 18] = ">"
            /\ int(Slice(s, i + 13, i + 17)) < NumPatchIndexTokens
         THEN 18
    ELSE 0

\* split in tag_tokens
InTagTokens(split) == split # <<>> /\ TagLenAt(split, 0) = Len(split)

\* re.split(rf"({pattern})", text): the fragments between the tags and the
\* tags themselves, alternating.  The scan is at offset pos, the open
\* fragment starts at offset from.
RECURSIVE SplitFrom(_, _, _)
SplitFrom(s, pos, from) ==
    LET i == NextLt(s, pos)
        n == TagLenAt(s, i)
    IN IF i >= Len(s) THEN <<SliceFrom(s, from)>>
       ELSE IF n > 0
            THEN <<Slice(s, from, i), Slice(s, i, i + n)>> \o SplitFrom(s, i + n, i + n)
            ELSE SplitFrom(s, i + 1, from)

re_split_tags(s) == SplitFrom(s, 0, 0)

SelectIdx(list, Keep(_)) ==
    LET F[k \in 0..Len(list)] ==
            IF k = 0 THEN <<>>
            ELSE IF Keep(k) THEN Append(F[k - 1], list[k]) ELSE F[k - 1]
    IN F[Len(list)]

\* [split for idx, split in enumerate(splits)
\*  if not (idx in [0, len(splits) - 1] and split == "")]
DropBoundaryEmpty(splits) ==
    LET Keep(k) == ~(k \in {1, Len(splits)} /\ splits[k] = <<>>)
    IN SelectIdx(splits, Keep)

\* SpacesStep without the rstrip of the accumulated output
SpacesStepNoRstrip(st, split) ==
    IF InTagTokens(split)
    THEN [output |-> st.output \o split, prev_str_in_targets |-> TRUE]
    ELSE IF st.prev_str_in_targets /\ ~StartsWithAt(split, 0, <<" ">>)
         THEN [output |-> st.output \o <<" ">> \o split, prev_str_in_targets |-> FALSE]
         ELSE [output |-> st.output \o split, prev_str_in_targets |-> FALSE]

\* SpacesStep without the startswith(" ") test
SpacesStepAlwaysSpace(st, split) ==
    IF InTagTokens(split)
    THEN [output |-> rstrip(st.output) \o split, prev_str_in_targets |-> TRUE]
    ELSE IF st.prev_str_in_targets
         THEN [output |-> st.output \o <<" ">> \o split, prev_str_in_targets |-> FALSE]
         ELSE [output |-> st.output \o split, prev_str_in_targets |-> FALSE]

\* one iteration of the rebuilding loop on [output, prev_str_in_targets]
SpacesStep(st, split) ==
    IF InTagTokens(split)
    THEN [output |-> rstrip(st.output) \o split, prev_str_in_targets |-> TRUE]
    ELSE IF st.prev_str_in_targets /\ ~StartsWithAt(split, 0, <<" ">>)
         THEN [output |-> st.output \o <<" ">> \o split, prev_str_in_targets |-> FALSE]
         ELSE [output |-> st.output \o split, prev_str_in_targets |-> FALSE]

\* the loop of lines 430-441 over splits, from the k-th split on with the
\* state st
SpacesOfSplits(splits) ==
    LET Loop[k \in 1..(Len(splits) + 1),
             st \in [output : Seq(STRING), prev_str_in_targets : BOOLEAN]] ==
            IF k > Len(splits) THEN st.output
            ELSE Loop[k + 1, SpacesStep(st, splits[k])]
    IN Loop[1, [output |-> <<>>, prev_str_in_targets |-> FALSE]]

_add_remove_spaces_around_tag_tokens(s) == SpacesOfSplits(DropBoundaryEmpty(re_split_tags(s)))

-----------------------------------------------------------------------------
(* The coordinate quantizer: coordinate_to_patch_index and                 *)
(* patch_index_to_coordinate, on exact rationals.                          *)

RECURSIVE GCD(_, _)
GCD(a, b) == IF b = 0 THEN a ELSE GCD(b, a % b)

Abs(n) == IF n < 0 THEN -n ELSE n

\* the rational n / d (d > 0) in lowest terms
Rat(n, d) == LET g == GCD(Abs(n), d) IN <<n \div g, d \div g>>

\* math.ceil(x * k): the upper-left corner rounded the wrong way
CeilTimes(x, k) == -((-(x[1] * k)) \div x[2])

\* math.floor(x * k) for the rational x
FloorTimes(x, k) == (x[1] * k) \div x[2]

\* math.floor(x * k - 1): the lower-right corner rounded the wrong way
FloorTimesMinusOne(x, k) == (x[1] * k - x[2]) \div x[2]

\* math.ceil(x * k - 1) for the rational x
CeilTimesMinusOne(x, k) == -((x[2] - x[1] * k) \div x[2])

coordinate_to_patch_index(bbox, num_patches_per_side) ==
    LET ul_x == FloorTimes(bbox[1], num_patches_per_side)
        ul_y == FloorTimes(bbox[2], num_patches_per_side)
        lr_x == CeilTimesMinusOne(bbox[3], num_patches_per_side)
        lr_y == CeilTimesMinusOne(bbox[4], num_patches_per_side)
        ul_idx == ul_y * num_patches_per_side + ul_x
        lr_idx == lr_y * num_patches_per_side + lr_x
    IN <<ul_idx, lr_idx>>

patch_index_to_coordinate(ul_idx, lr_idx, num_patches_per_side) ==
    LET g == num_patches_per_side
        ul_x == ul_idx % g
        ul_y == ul_idx \div g
        lr_x == lr_idx % g
        lr_y == lr_idx \div g
    IN IF ul_idx = lr_idx
       THEN <<Rat(ul_x, g), Rat(ul_y, g), Rat(lr_x + 1, g), Rat(lr_y + 1, g)>>
       ELSE IF ul_x = lr_x \/ ul_y = lr_y
       THEN <<Rat(ul_x, g), Rat(ul_y, g), Rat(lr_x + 1, g), Rat(lr_y + 1, g)>>
       ELSE <<Rat(2 * ul_x + 1, 2 * g), Rat(2 * ul_y + 1, 2 * g),
              Rat(2 * lr_x + 1, 2 * g), Rat(2 * lr_y + 1, 2 * g)>>

-----------------------------------------------------------------------------
(* Kosmos2Processor._insert_patch_index_tokens                             *)

\* bboxes is None, or a list of groups; a group is None, one box (a tuple)
\* or a list of boxes; a box is 2 ints or 4 coordinates.
NoBboxes == [kind |-> "none", items |-> <<>>]
BboxList(groups) == [kind |-> "list", items |-> groups]
NoGroup == [kind |-> "none", val |-> <<>>]
TupleGroup(box) == [kind |-> "tuple", val |-> box]
ListGroup(boxes) == [kind |-> "list", val |-> boxes]

\* the offset just past the match of <phrase>.+?</phrase> that starts at
\* offset i, -1 if there is none ("." matches no newline)
PhraseMatchEnd(s, i) ==
    IF ~StartsWithAt(s, i, PhraseOpen) THEN -1
    ELSE LET j == FindLit(s, PhraseClose, i + 9) IN
         IF j < 0 \/ (\E k \in (i + 9)..j : s[k] = "\n") THEN -1 ELSE j + 9

\* list(re.finditer(r"<phrase>.+?</phrase>", string=text)) from offset pos
\* on, as the spans <<start, end>> of the matches
RECURSIVE PhraseMatchesFrom(_, _)
PhraseMatchesFrom(s, pos) ==
    LET i == NextLt(s, pos)
        e == PhraseMatchEnd(s, i)
    IN IF i >= Len(s) THEN <<>>
       ELSE IF e >= 0 THEN <<(<<i, e>>)>> \o PhraseMatchesFrom(s, e)
       ELSE PhraseMatchesFrom(s, i + 1)

matched_phrases(s) == PhraseMatchesFrom(s, 0)

\* int(math.sqrt(n))
IntSqrt(n) == CHOOSE r \in 0..n : r * r <= n /\ n < (r + 1) * (r + 1)

\* the patch index tokens without the zero padding
_convert_bbox_no_zfill(bbox) ==
    LET idx == IF Len(bbox) = 2 THEN bbox
               ELSE coordinate_to_patch_index(bbox, IntSqrt(NumPatchIndexTokens))
    IN <<PatchIndexPrefix \o str(idx[1]) \o <<">">>, PatchIndexPrefix \o str(idx[2]) \o <<">">> >>

_convert_bbox_to_patch_index_tokens(bbox) ==
    LET idx == IF Len(bbox) = 2 THEN bbox
               ELSE coordinate_to_patch_index(bbox, IntSqrt(NumPatchIndexTokens))
    IN <<PatchIndexToken(idx[1]), PatchIndexToken(idx[2])>>

\* f"<object> {position_str} </object>" for the boxes of one phrase
ObjectBlock(boxes) ==
    LET patch_index_strings ==
            [k \in 1..Len(boxes) |->
                LET t == _convert_bbox_to_patch_index_tokens(boxes[k])
                IN t[1] \o <<" ">> \o t[2]]
        position_str == JoinWith(<<" ">> \o Delimiter \o <<" ">>, patch_index_strings)
    IN ObjectOpen \o <<" ">> \o position_str \o <<" ">> \o ObjectClose

\* what one iteration of the loop appends to buffer
InsertFragment(s, curr_pos, end, bbox) ==
    Slice(s, curr_pos, end) \o
        (IF bbox.kind = "none" THEN <<>>
         ELSE LET boxes == IF bbox.kind = "tuple" THEN <<bbox.val>> ELSE bbox.val IN
              IF Len(boxes) = 0 THEN <<>> ELSE ObjectBlock(boxes))

\* the early return forgotten: an empty list is held against the matches
InsertReturnsTextNoneOnly(s, bboxes) == bboxes.kind = "none"

\* bboxes is None or len(bboxes) == 0
InsertReturnsText(s, bboxes) == bboxes.kind = "none" \/ Len(bboxes.items) = 0

\* len(matched_phrases) != len(bboxes): the ValueError
InsertRaises(s, bboxes) ==
    /\ ~InsertReturnsText(s, bboxes)
    /\ Len(matched_phrases(s)) # Len(bboxes.items)

\* the text returned when nothing is raised, lines 389-390 forgotten: the text
\* after the last phrase is not appended
_insert_drops_remaining(s, bboxes) ==
    IF InsertReturnsText(s, bboxes) THEN s
    ELSE LET m == matched_phrases(s)
             n == Len(m)
             buffer == [k \in 1..n |->
                           InsertFragment(s, IF k = 1 THEN 0 ELSE m[k - 1][2], m[k][2],
                                          bboxes.items[k])]
         IN Join(buffer)

\* the text returned when nothing is raised
_insert_patch_index_tokens(s, bboxes) ==
    IF InsertReturnsText(s, bboxes) THEN s
    ELSE LET m == matched_phrases(s)
             n == Len(m)
             buffer == [k \in 1..n |->
                           InsertFragment(s, IF k = 1 THEN 0 ELSE m[k - 1][2], m[k][2],
                                          bboxes.items[k])]
             curr_pos == IF n = 0 THEN 0 ELSE m[n][2]
         IN Join(buffer) \o (IF curr_pos < Len(s) THEN SliceFrom(s, curr_pos) ELSE <<>>)

\* preprocess_single without line 283: the tag spacing is left as inserted
preprocess_single_no_spaces(s, bboxes) == _insert_patch_index_tokens(strip(s), bboxes)

\* preprocess_single(text, None, bboxes), lines 275-284, when nothing is raised
preprocess_single(s, bboxes) ==
    _add_remove_spaces_around_tag_tokens(_insert_patch_index_tokens(strip(s), bboxes))

-----------------------------------------------------------------------------
(* extract_entities_with_patch_indices                                     *)

\* the number of digits from offset i on
RECURSIVE DigitRun(_, _)
DigitRun(s, i) == IF i < Len(s) /\ IsDigit(s[i + 1]) THEN 1 + DigitRun(s, i + 1) ELSE 0

\* the offset just past the match of <patch_index_\d+> at offset i, -1 if none
PatchIndexTagEnd(s, i) ==
    IF ~StartsWithAt(s, i, PatchIndexPrefix) THEN -1
    ELSE LET n == DigitRun(s, i + 13) IN
         IF n >= 1 /\ StartsWithAt(s, i + 13 + n, <<">">>) THEN i + 13 + n + 1 ELSE -1

\* the offset just past <patch_index_\d+><patch_index_\d+> at offset i, -1 if none
PairEnd(s, i) ==
    LET e == PatchIndexTagEnd(s, i) IN IF e < 0 THEN -1 ELSE PatchIndexTagEnd(s, e)

\* the offset just past group 3,
\* (?:<patch_index_\d+><patch_index_\d+></delimiter_of_multi_objects/>)*<patch_index_\d+><patch_index_\d+>
\* followed by </object>, when it starts at offset i; -1 if there is none
RECURSIVE PairsEnd(_, _)
PairsEnd(s, i) ==
    LET e == PairEnd(s, i) IN
    IF e < 0 THEN -1
    ELSE IF StartsWithAt(s, e, Delimiter) /\ PairsEnd(s, e + Len(Delimiter)) >= 0
         THEN PairsEnd(s, e + Len(Delimiter))
    ELSE IF StartsWithAt(s, e, ObjectClose) THEN e
    ELSE -1

\* <object>(...)</object> at offset i: the span of group 3, <<-1, -1>> if none
ObjectMatch(s, i) ==
    IF ~StartsWithAt(s, i, ObjectOpen) THEN <<-1, -1>>
    ELSE LET e == PairsEnd(s, i + Len(ObjectOpen)) IN
         IF e < 0 THEN <<-1, -1>> ELSE <<i + Len(ObjectOpen), e>>

NoMatch == [found |-> FALSE, start |-> -1, end |-> -1, phrase |-> <<-1, -1>>, content |-> <<-1, -1>>]

\* the match of `pattern` that starts at offset i: the optional group
\* (<phrase>([^<]+)</phrase>) is tried first and given up when the rest fails
MatchAt(s, i) ==
    LET c == NextLt(s, i + Len(PhraseOpen))
        withPhrase ==
            IF StartsWithAt(s, i, PhraseOpen) /\ c > i + Len(PhraseOpen)
                  /\ StartsWithAt(s, c, PhraseClose)
            THEN ObjectMatch(s, c + Len(PhraseClose))
            ELSE <<-1, -1>>
        bare == ObjectMatch(s, i)
    IN IF withPhrase[1] >= 0
       THEN [found |-> TRUE, start |-> i, end |-> withPhrase[2] + Len(ObjectClose),
             phrase |-> <<i + Len(PhraseOpen), c>>, content |-> withPhrase]
       ELSE IF bare[1] >= 0
       THEN [found |-> TRUE, start |-> i, end |-> bare[2] + Len(ObjectClose),
             phrase |-> <<-1, -1>>, content |-> bare]
       ELSE NoMatch

\* re.finditer(pattern, text) from offset pos on
RECURSIVE MatchesFrom(_, _)
MatchesFrom(s, pos) ==
    LET i == NextLt(s, pos)
        m == MatchAt(s, i)
    IN IF i >= Len(s) THEN <<>>
       ELSE IF m.found THEN <<m>> \o MatchesFrom(s, m.end)
       ELSE MatchesFrom(s, i + 1)

\* s.split(sep) for a sep that starts with "<"
RECURSIVE SplitOnFrom(_, _, _)
SplitOnFrom(s, sep, from) ==
    LET i == FindLit(s, sep, from) IN
    IF i < 0 THEN <<SliceFrom(s, from)>>
    ELSE <<Slice(s, from, i)>> \o SplitOnFrom(s, sep, i + Len(sep))

split(s, sep) == SplitOnFrom(s, sep, 0)

\* re.search(r"<patch_index_(\d+)>", s): group 1 as a sequence holding the
\* digits, <<>> when nothing matches
RECURSIVE SearchPatchIndexFrom(_, _)
SearchPatchIndexFrom(s, pos) ==
    LET i == NextLt(s, pos) IN
    IF i >= Len(s) THEN <<>>
    ELSE IF PatchIndexTagEnd(s, i) >= 0 THEN <<Slice(s, i + 13, PatchIndexTagEnd(s, i) - 1)>>
    ELSE SearchPatchIndexFrom(s, i + 1)

SearchPatchIndex(s) == SearchPatchIndexFrom(s, 0)

\* entity_bboxes of one match: the pairs in which x and y are both found
EntityBboxes(match_content) ==
    LET pairs == split(match_content, Delimiter)
        F[k \in 0..Len(pairs)] ==
            IF k = 0 THEN <<>>
            ELSE LET x == SearchPatchIndex(pairs[k])
                     y == SearchPatchIndex(SliceFrom(pairs[k], 1))
                 IN IF x # <<>> /\ y # <<>>
                    THEN Append(F[k - 1], <<int(x[1]), int(y[1])>>)
                    ELSE F[k - 1]
    IN F[Len(pairs)]

Entity(name, span, bboxes) == [name |-> name, span |-> span, bboxes |-> bboxes]

\* the fake entity name spelt with the zero padding of the tokens
FakeEntityNameZfill(bbox) == PatchIndexToken(bbox[1]) \o PatchIndexToken(bbox[2])

\* f"<patch_index_{bbox[0]}><patch_index_{bbox[1]}>"
FakeEntityName(bbox) ==
    PatchIndexPrefix \o str(bbox[1]) \o <<">">> \o PatchIndexPrefix \o str(bbox[2]) \o <<">">>

\* the entities one match appends
EntitiesOfMatch(s, m) ==
    LET entity_bboxes == EntityBboxes(Slice(s, m.content[1], m.content[2])) IN
    IF m.phrase[1] >= 0
    THEN <<Entity(Slice(s, m.phrase[1], m.phrase[2]), m.phrase, entity_bboxes)>>
    ELSE [k \in 1..Len(entity_bboxes) |->
             Entity(FakeEntityName(entity_bboxes[k]), <<m.start, m.start>>,
                    <<entity_bboxes[k]>>)]

\* lines 529-559: the entities of the matches of `pattern`, in order
EntitiesOfMatches(s, matches) ==
    LET F[k \in 0..Len(matches)] ==
            IF k = 0 THEN <<>> ELSE F[k - 1] \o EntitiesOfMatch(s, matches[k])
    IN F[Len(matches)]

extract_entities_with_patch_indices(s) == EntitiesOfMatches(s, MatchesFrom(s, 0))

-----------------------------------------------------------------------------
(* remove_special_fields, adjust_entity_positions and                      *)
(* clean_text_and_extract_entities_with_bboxes                             *)

\* the offset just past the match of <.*?> at offset i, -1 if there is none
SpecialFieldEnd(s, i) ==
    IF i >= Len(s) \/ s[i + 1] # "<" THEN -1
    ELSE LET j == Find(s, ">", i + 1) IN
         IF j >= Len(s) \/ (\E k \in (i + 2)..j : s[k] = "\n") THEN -1 ELSE j + 1

\* the text from offset from on without the matches of <.*?>, leftmost
\* first; the scan is at offset pos
RECURSIVE RemoveFrom(_, _, _)
RemoveFrom(s, pos, from) ==
    LET i == NextLt(s, pos)
        e == SpecialFieldEnd(s, i)
    IN IF i >= Len(s) THEN SliceFrom(s, from)
       ELSE IF e >= 0 THEN Slice(s, from, i) \o RemoveFrom(s, e, e)
       ELSE RemoveFrom(s, i + 1, from)

\* re.sub("<.*?>", "", text)
remove_special_fields(s) == RemoveFrom(s, 0, 0)

adjust_entity_positions(entity, s) ==
    LET adjusted_start == Len(remove_special_fields(Slice(s, 0, entity.span[1])))
        adjusted_end == Len(remove_special_fields(Slice(s, 0, entity.span[2])))
    IN [entity EXCEPT !.span = <<adjusted_start, adjusted_end>>]

\* cleanup_spaces for one entity, the name left as extracted
CleanupEntityKeepName(entity, leading_spaces) ==
    LET name == entity.name
        entity_name_leading_spaces == Len(name) - Len(lstrip(name))
        entity_name_trailing_spaces == Len(name) - Len(rstrip(name))
    IN [entity EXCEPT
           !.span = <<entity.span[1] - leading_spaces + entity_name_leading_spaces,
                      entity.span[2] - leading_spaces - entity_name_trailing_spaces>>]

\* cleanup_spaces for one entity
CleanupEntity(entity, leading_spaces) ==
    LET name == entity.name
        entity_name_leading_spaces == Len(name) - Len(lstrip(name))
        entity_name_trailing_spaces == Len(name) - Len(rstrip(name))
    IN [entity EXCEPT
           !.name = strip(name),
           !.span = <<entity.span[1] - leading_spaces + entity_name_leading_spaces,
                      entity.span[2] - leading_spaces - entity_name_trailing_spaces>>]

\* lines 585-587: one entity with its span adjusted and its bboxes as coordinates
AdjustedEntity(entity, s, num_patches_per_side) ==
    [adjust_entity_positions(entity, s) EXCEPT
        !.bboxes = [b \in 1..Len(entity.bboxes) |->
                       patch_index_to_coordinate(entity.bboxes[b][1], entity.bboxes[b][2],
                                                 num_patches_per_side)]]

\* lines 584-607: the entities found in s, adjusted, then cleaned of spaces for
\* the processed text
CleanFound(s, found, processed_text, num_patches_per_side) ==
    [k \in 1..Len(found) |->
        CleanupEntity(AdjustedEntity(found[k], s, num_patches_per_side),
                      Len(processed_text) - Len(lstrip(processed_text)))]

\* the entities clean_text_and_extract_entities_with_bboxes returns
CleanEntities(s, num_patches_per_side) ==
    CleanFound(s, extract_entities_with_patch_indices(s), remove_special_fields(s),
               num_patches_per_side)

\* the text clean_text_and_extract_entities_with_bboxes returns
CleanText(s) == strip(remove_special_fields(s))

-----------------------------------------------------------------------------
(* Kosmos2Processor.__call__ with text and images: the tokenizer's rows,   *)
(* the loop that writes the image token ids and the mask, the padding of   *)
(* a batch.                                                                *)

\* ids of the tokenizer's vocabulary
bos_token_id == 0
pad_token_id == 1
eos_token_id == 2
unk_token_id == 3
image_token_id == 64003
eoi_token_id == 64004

\* an optional int argument
None == [given |-> FALSE, value |-> 0]
Some(v) == [given |-> TRUE, value |-> v]

\* [x] * k, empty for k <= 0
Repeat(x, k) == [i \in 1..k |-> x]

\* l[:k] and l[k:] for k >= 0
ListHead(l, k) == SubSeq(l, 1, Min({k, Len(l)}))
ListFrom(l, k) == SubSeq(l, Min({k, Len(l)}) + 1, Len(l))

\* the tokens of img_info: "<image>", the fake "<image>" tokens, "</image>"
ImageInfoIds(num_image_tokens) ==
    <<image_token_id>> \o Repeat(image_token_id, num_image_tokens) \o <<eoi_token_id>>

\* the input_ids self.tokenizer returns for one preprocessed text without
\* padding: the bos token written in front of the text when the eos token is
\* not wanted, the special tokens added by the tokenizer otherwise, the text
\* cut to max_length when truncation is on
TokenizerIds(words, p) ==
    LET specials == p.add_special_tokens /\ p.add_eos_token
        content ==
            (IF p.add_special_tokens /\ ~p.add_eos_token THEN <<bos_token_id>> ELSE <<>>)
                \o ImageInfoIds(p.num_image_tokens) \o words
        room == p.max_length.value - (IF specials THEN 2 ELSE 0)
        kept == IF p.truncation /\ p.max_length.given /\ Len(content) > room
                THEN ListHead(content, Max({room, 0}))
                ELSE content
    IN IF specials THEN <<bos_token_id>> \o kept \o <<eos_token_id>> ELSE kept

\* the length of a one-row batch after the tokenizer has padded it
PaddedLength(ids, p) ==
    IF p.padding = "max_length" /\ p.max_length.given
    THEN Max({Len(ids), p.max_length.value})
    ELSE Len(ids)

\* lines 120-122
FirstImageTokenId(p) ==
    IF p.first_image_token_id.given THEN p.first_image_token_id.value ELSE unk_token_id + 1

\* start_index taken as 1 whether or not there is a bos token
StartIndexWithoutBos(p) == 1

\* lines 125 and 129: with_bos and start_index
StartIndex(p) == (IF p.add_special_tokens THEN 1 ELSE 0) + 1

\* line 133: list(range(first_image_token_id, first_image_token_id + num_image_tokens))
ImageTokenIds(p) == [i \in 1..p.num_image_tokens |-> FirstImageTokenId(p) + i - 1]

\* line 134
BaseImageFeaturesMask(p) == <<0>> \o Repeat(1, p.num_image_tokens) \o <<0>>

\* the row that stops after the image token ids
ExpandedIdsNoTail(text_ids, p) == ListHead(text_ids, StartIndex(p)) \o ImageTokenIds(p)

\* line 146
ExpandedIds(text_ids, p) ==
    ListHead(text_ids, StartIndex(p)) \o ImageTokenIds(p)
        \o ListFrom(text_ids, StartIndex(p) + p.num_image_tokens)

\* lines 149-154, for the row line 146 has written
MaskOfRow(text_ids, p) ==
    LET mask == (IF p.add_special_tokens THEN <<0>> ELSE <<>>) \o BaseImageFeaturesMask(p)
    IN mask \o Repeat(0, Len(text_ids) - Len(mask))

\* sorted(pairs) for pairs of ints: by the first component, then the second
RECURSIVE Sorted(_)
Sorted(pairs) ==
    IF pairs = {} THEN <<>>
    ELSE LET least == CHOOSE x \in pairs :
                          \A y \in pairs : x[1] < y[1] \/ (x[1] = y[1] /\ x[2] <= y[2])
         IN <<least>> \o Sorted(pairs \ {least})

\* line 159: the (idx, len) pairs of the tokenizer's rows, idx from 0
SortedLength(rows) == Sorted({<<k - 1, Len(rows[k])>> : k \in 1..Len(rows)})

\* lines 176, 177, 183, 184: one row padded on the tokenizer's padding side
PadRow(x, fill, max_len_padded, padding_side) ==
    IF padding_side = "right" THEN x \o Repeat(fill, max_len_padded - Len(x))
    ELSE IF padding_side = "left" THEN Repeat(fill, max_len_padded - Len(x)) \o x
    ELSE x

-----------------------------------------------------------------------------
(* Inputs.                                                                 *)

Concat(pieces) == Join(pieces)

TextsOf(Pieces, n) ==
    {Concat(p) : p \in UNION {[1..k -> Pieces] : k \in 0..n}}

SeqsOf(S, n) == UNION {[1..k -> S] : k \in 0..n}

Cat == <<"c", "a", "t">>
Dog == <<"d", "o", "g">>

NormPieces ==
    {PhraseOpen, PhraseClose, PatchIndexToken(3), <<" ">>, <<"\t">>, <<"\n">>, <<"a">>, <<"<">>}

InsertPieces ==
    {PhraseOpen \o Cat \o PhraseClose,
     PhraseOpen \o <<" ">> \o Dog \o <<"\t">> \o PhraseClose,
     PhraseOpen \o <<" ">> \o PhraseClose,
     <<" ", "a", "n", "d", " ">>}

GroupChoices ==
    {NoGroup, TupleGroup(<<3, 3>>), ListGroup(<<(<<3, 3>>)>>),
     ListGroup(<<(<<10, 12>>), (<<5, 5>>)>>)}

\* generated text: phrases, object blocks written with zero padded indices,
\* plain text and a stray "<"
ObjectOfPairs(pairs) ==
    ObjectOpen
        \o JoinWith(Delimiter,
                    [k \in 1..Len(pairs) |->
                        PatchIndexToken(pairs[k][1]) \o PatchIndexToken(pairs[k][2])])
        \o ObjectClose

DecodePieces ==
    {PhraseOpen \o <<"a">> \o PhraseClose,
     PhraseOpen \o <<" ">> \o PhraseClose,
     PhraseOpen \o <<" ", "a", " ">> \o PhraseClose,
     ObjectOfPairs(<<(<<0, 0>>)>>),
     ObjectOfPairs(<<(<<12, 34>>), (<<5, 1023>>)>>),
     <<" ", "b">>,
     <<" ">>,
     <<"<">>}

\* generated captions with one grounded phrase:
\* A<phrase>P</phrase><object><patch_index_i><patch_index_i></object>B, after
\* </image> or not; the index is given as the digits written in the caption
Apple == <<"a", "p", "p", "l", "e">>

CaptionLeads == {<<>>, <<"A", "n", " ", "a", "p", "p", "l", "e", " ">>, <<" ", "x">>, <<">", "\n">>}

CaptionPhrases == {Apple, <<" ">> \o Apple, <<"a", "\t">>, <<" ">>, <<>>}

CaptionTails == {<<>>, <<" ", "i", "s", " ", "r", "e", "d", ".">>, <<" ">>}

CaptionIndexDigits == {<<"0", "0", "1", "2">>, <<"0", "0", "0", "0">>, <<"3">>, <<"1", "0", "2", "3">>}

Caption(with_image, A, P, digits, B) ==
    (IF with_image THEN ImageClose ELSE <<>>)
        \o A \o PhraseOpen \o P \o PhraseClose
        \o ObjectOpen
        \o PatchIndexPrefix \o digits \o <<">">>
        \o PatchIndexPrefix \o digits \o <<">">>
        \o ObjectClose \o B

Captions ==
    {Caption(c[1], c[2], c[3], c[4], c[5]) :
        c \in BOOLEAN \X CaptionLeads \X CaptionPhrases \X CaptionIndexDigits \X CaptionTails}

\* groups of every kind: None, an empty list, one tuple with an index of five
\* digits, one tuple of coordinates, a list of two boxes
FrameGroupChoices ==
    {NoGroup, ListGroup(<<>>), TupleGroup(<<3, 12345>>),
     TupleGroup(<<Rat(1, 4), Rat(1, 4), Rat(1, 2), Rat(1, 2)>>),
     ListGroup(<<(<<10, 12>>), (<<5, 5>>)>>)}

FrameBboxChoices == {NoBboxes} \cup {BboxList(g) : g \in SeqsOf(FrameGroupChoices, MaxGroups)}

\* texts for preprocess_text: the pieces of the insertion, a phrase of two
\* lines and an object block already written in the text
PipelinePieces ==
    InsertPieces \cup {PhraseOpen \o <<"a", "\n", "b">> \o PhraseClose,
                       ObjectOfPairs(<<(<<1, 1>>)>>)}

BboxChoices == {NoBboxes} \cup {BboxList(g) : g \in SeqsOf(GroupChoices, MaxGroups)}

CallIdle == [pc |-> "idle"]

\* the word tokens of an example's text
WordIds(w) == [i \in 1..w |-> 1000 + i]

\* the arguments of a call with text and images
CallParams ==
    {p \in [add_special_tokens : BOOLEAN, add_eos_token : BOOLEAN,
            num_image_tokens : {1, 4}, first_image_token_id : {None, Some(100)},
            padding : {"do_not_pad", "longest", "max_length"},
            truncation : BOOLEAN, max_length : {None, Some(3), Some(8)},
            padding_side : {"right", "left"}, batched : BOOLEAN] :
        /\ p.padding = "max_length" => p.max_length.given
        /\ p.truncation => p.max_length.given}

\* the texts of a call: one text, or a batch of texts
CallWords(batched) ==
    {ws \in SeqsOf({WordIds(w) : w \in 0..MaxWords}, MaxBatch) :
        /\ Len(ws) >= 1
        /\ ~batched => Len(ws) = 1}
QuantIdle == [pc |-> "idle"]

\* the coordinates in [0, 1] with a denominator up to MaxDenominator
Coordinates ==
    {Rat(x[1], x[2]) : x \in {y \in (0..MaxDenominator) \X (1..MaxDenominator) : y[1] <= y[2]}}

-----------------------------------------------------------------------------
(* The text pipeline: preprocess_single runs _insert_patch_index_tokens    *)
(* and then _add_remove_spaces_around_tag_tokens; the decoding functions   *)
(* run on a text as it stands.                                             *)

\* preprocess_single, line 282: text = self._insert_patch_index_tokens(text, bboxes)
InsertPatchIndexTokens ==
    /\ pc = "raw"
    /\ IF InsertRaises(text, in_bboxes)
       THEN pc' = "error" /\ text' = text
       ELSE pc' = "inserted" /\ text' = _insert_patch_index_tokens(text, in_bboxes)
    /\ prev_text' = text
    /\ UNCHANGED <<in_text, in_bboxes, norm_runs, entities, grid, call, quant>>

\* preprocess_single, line 283: text = self._add_remove_spaces_around_tag_tokens(text)
AddRemoveSpaces ==
    /\ pc = "inserted"
    /\ text' = _add_remove_spaces_around_tag_tokens(text)
    /\ prev_text' = text
    /\ norm_runs' = norm_runs + 1
    /\ pc' = "spaced"
    /\ UNCHANGED <<in_text, in_bboxes, entities, grid, call, quant>>

\* _add_remove_spaces_around_tag_tokens called on a text it has returned
AddRemoveSpacesAgain ==
    /\ pc = "spaced"
    /\ norm_runs = 1
    /\ text' = _add_remove_spaces_around_tag_tokens(text)
    /\ prev_text' = text
    /\ norm_runs' = norm_runs + 1
    /\ UNCHANGED <<pc, in_text, in_bboxes, entities, grid, call, quant>>

\* preprocess_text(text, bboxes=bboxes) on one text without image: the
\* ValueError of _insert_patch_index_tokens, or the preprocessed text
PreprocessText ==
    /\ pc = "given"
    /\ IF InsertRaises(strip(text), in_bboxes)
       THEN pc' = "error" /\ text' = text /\ norm_runs' = norm_runs
       ELSE /\ pc' = "spaced"
            /\ text' = preprocess_single(text, in_bboxes)
            /\ norm_runs' = norm_runs + 1
    /\ prev_text' = text
    /\ UNCHANGED <<in_text, in_bboxes, entities, grid, call, quant>>

\* extract_entities_with_patch_indices(text)
ExtractEntities ==
    /\ pc \in {"generated", "inserted", "spaced"}
    /\ entities' = extract_entities_with_patch_indices(text)
    /\ pc' = "extracted"
    /\ UNCHANGED <<in_text, in_bboxes, text, prev_text, norm_runs, grid, call, quant>>

GridSides == {2, 32}

\* clean_text_and_extract_entities_with_bboxes(text, num_patches_per_side)
CleanTextAndExtract ==
    /\ pc \in {"generated", "spaced"}
    /\ \E g \in GridSides :
           /\ grid' = g
           /\ entities' = CleanEntities(text, g)
    /\ text' = CleanText(text)
    /\ prev_text' = text
    /\ pc' = "cleaned"
    /\ UNCHANGED <<in_text, in_bboxes, norm_runs, call, quant>>

\* lines 97-118: the text is preprocessed and handed to the tokenizer, which
\* does not pad when there are images
TokenizeText ==
    /\ call.pc = "called"
    /\ call' = [call EXCEPT
           !.pc = "tokenized",
           !.text_encoding = [k \in 1..Len(call.words) |-> TokenizerIds(call.words[k], call.p)],
           !.attention_mask =
               [k \in 1..Len(call.words) |->
                   Repeat(1, Len(TokenizerIds(call.words[k], call.p)))]]
    /\ UNCHANGED <<pc, in_text, in_bboxes, text, prev_text, norm_runs, entities, grid, quant>>

\* lines 119-154: the image token ids are written over every row and the
\* row's image_features_mask is made
ExpandImageTokens ==
    /\ call.pc = "tokenized"
    /\ LET input_ids == [k \in 1..Len(call.text_encoding) |->
                             ExpandedIds(call.text_encoding[k], call.p)]
       IN call' = [call EXCEPT
              !.pc = "expanded",
              !.input_ids = input_ids,
              !.image_features_mask =
                  [k \in 1..Len(input_ids) |-> MaskOfRow(input_ids[k], call.p)]]
    /\ UNCHANGED <<pc, in_text, in_bboxes, text, prev_text, norm_runs, entities, grid, quant>>

\* lines 158-196 and 209-210: a batch is padded when the first row's length
\* differs from the padded length of the last row; a single text is
\* un-batched
PadAndReturn ==
    /\ call.pc = "expanded"
    /\ IF call.p.batched
       THEN LET sorted_length == SortedLength(call.text_encoding)
                min_len_not_padded == sorted_length[1][2]
                idx == sorted_length[Len(sorted_length)][1]
                max_len_padded == PaddedLength(TokenizerIds(call.words[idx + 1], call.p), call.p)
                side == IF min_len_not_padded # max_len_padded
                        THEN call.p.padding_side ELSE "none"
            IN call' = [call EXCEPT
                   !.pc = "returned",
                   !.input_ids =
                       [k \in 1..Len(@) |-> PadRow(@[k], pad_token_id, max_len_padded, side)],
                   !.image_features_mask =
                       [k \in 1..Len(@) |-> PadRow(@[k], 0, max_len_padded, side)],
                   !.attention_mask =
                       [k \in 1..Len(@) |-> PadRow(@[k], 0, max_len_padded, side)]]
       ELSE call' = [call EXCEPT
                !.pc = "returned",
                !.input_ids = @[1],
                !.image_features_mask = @[1],
                !.attention_mask = @[1]]
    /\ UNCHANGED <<pc, in_text, in_bboxes, text, prev_text, norm_runs, entities, grid, quant>>

\* coordinate_to_patch_index(bbox, num_patches_per_side), on a given box or
\* on the box patch_index_to_coordinate returned
CoordinateToPatchIndex ==
    /\ quant.pc \in {"box", "coords"}
    /\ quant' = IF quant.pc = "box"
                THEN [quant EXCEPT
                         !.pc = "indexed",
                         !.indices = coordinate_to_patch_index(quant.bbox,
                                                               quant.num_patches_per_side)]
                ELSE [quant EXCEPT
                         !.pc = "reindexed",
                         !.reindexed = coordinate_to_patch_index(quant.decoded,
                                                                 quant.num_patches_per_side)]
    /\ UNCHANGED <<pc, in_text, in_bboxes, text, prev_text, norm_runs, entities, grid, call>>

\* patch_index_to_coordinate(ul_idx, lr_idx, num_patches_per_side), on the
\* indices of a box or on a given pair of indices
PatchIndexToCoordinate ==
    /\ quant.pc \in {"indexed", "pair"}
    /\ quant' = [quant EXCEPT
           !.pc = IF quant.pc = "indexed" THEN "decoded" ELSE "coords",
           !.decoded = patch_index_to_coordinate(quant.indices[1], quant.indices[2],
                                                quant.num_patches_per_side)]
    /\ UNCHANGED <<pc, in_text, in_bboxes, text, prev_text, norm_runs, entities, grid, call>>

TextInit(t, b, at) ==
    /\ in_text = t
    /\ in_bboxes = b
    /\ text = t
    /\ prev_text = t
    /\ norm_runs = 0
    /\ entities = <<>>
    /\ grid = 0
    /\ pc = at
    /\ call = CallIdle
    /\ quant = QuantIdle

\* the tag spacing normalizer on the texts an insertion may hand it
InitNorm == \E t \in TextsOf(NormPieces, MaxNormPieces) : TextInit(t, NoBboxes, "inserted")

NextNorm == AddRemoveSpaces \/ AddRemoveSpacesAgain

SpecNorm == InitNorm /\ [][NextNorm]_vars

\* the encoding direction, and the extraction of what it wrote
InitInsert ==
    \E t \in TextsOf(InsertPieces, MaxInsertPieces), b \in BboxChoices : TextInit(t, b, "raw")

NextInsert == InsertPatchIndexTokens \/ AddRemoveSpaces \/ ExtractEntities

SpecInsert == InitInsert /\ [][NextInsert]_vars

\* the encoding of a text with its boxes, then the decoding of the result
InitPipeline ==
    \E t \in TextsOf(PipelinePieces, MaxPipelinePieces), b \in BboxChoices :
        TextInit(t, b, "given")

NextPipeline == PreprocessText \/ CleanTextAndExtract

SpecPipeline == InitPipeline /\ [][NextPipeline]_vars

\* the insertion alone, on groups of every kind
InitFrame ==
    \E t \in TextsOf(InsertPieces, MaxInsertPieces), b \in FrameBboxChoices :
        TextInit(t, b, "raw")

NextFrame == InsertPatchIndexTokens

SpecFrame == InitFrame /\ [][NextFrame]_vars

\* the decoding direction, on generated text
InitDecode == \E t \in TextsOf(DecodePieces, MaxDecodePieces) : TextInit(t, NoBboxes, "generated")

NextDecode == ExtractEntities \/ CleanTextAndExtract

SpecDecode == InitDecode /\ [][NextDecode]_vars

\* the decoding direction, on captions with one grounded phrase
InitCaption == \E t \in Captions : TextInit(t, NoBboxes, "generated")

SpecCaption == InitCaption /\ [][NextDecode]_vars

\* one call of the processor with text and images
InitCall ==
    /\ \E p \in CallParams : \E ws \in CallWords(p.batched) :
           call = [pc |-> "called", p |-> p, words |-> ws, text_encoding |-> <<>>,
                   attention_mask |-> <<>>, input_ids |-> <<>>, image_features_mask |-> <<>>]
    /\ in_text = <<>> /\ in_bboxes = NoBboxes /\ text = <<>> /\ prev_text = <<>>
    /\ norm_runs = 0 /\ entities = <<>> /\ grid = 0 /\ pc = "idle"
    /\ quant = QuantIdle

NextCall == TokenizeText \/ ExpandImageTokens \/ PadAndReturn

SpecCall == InitCall /\ [][NextCall]_vars

\* the coordinate conversions, starting from one box or from one pair of
\* cell indices of the grid
InitQuant ==
    /\ \E g \in 1..MaxGridSide :
           \/ \E bbox \in Coordinates \X Coordinates \X Coordinates \X Coordinates :
                  quant = [pc |-> "box", bbox |-> bbox, num_patches_per_side |-> g,
                           indices |-> <<0, 0>>, decoded |-> <<>>, reindexed |-> <<0, 0>>]
           \/ \E ul_idx \in 0..(g * g - 1), lr_idx \in 0..(g * g - 1) :
                  quant = [pc |-> "pair", bbox |-> <<>>, num_patches_per_side |-> g,
                           indices |-> <<ul_idx, lr_idx>>, decoded |-> <<>>,
                           reindexed |-> <<0, 0>>]
    /\ in_text = <<>> /\ in_bboxes = NoBboxes /\ text = <<>> /\ prev_text = <<>>
    /\ norm_runs = 0 /\ entities = <<>> /\ grid = 0 /\ pc = "idle"
    /\ call = CallIdle

NextQuant == CoordinateToPatchIndex \/ PatchIndexToCoordinate

SpecQuant == InitQuant /\ [][NextQuant]_vars

-----------------------------------------------------------------------------
(* The phrases and groups of the input, as the properties below speak of them.       *)

InPhrases == matched_phrases(in_text)

\* P_k: what stands between <phrase> and </phrase> in the k-th span
PhraseContent(k) ==
    Slice(in_text, InPhrases[k][1] + Len(PhraseOpen), InPhrases[k][2] - Len(PhraseClose))

\* the boxes of a group that is not None
GroupBoxes(g) == IF g.kind = "tuple" THEN <<g.val>> ELSE g.val

CountOf(s, c) == Cardinality({k \in 1..Len(s) : s[k] = c})

\* k tag-free phrases and k non-empty groups of integer index pairs
PhrasesWithIndexGroups ==
    /\ in_bboxes.kind = "list"
    /\ Len(in_bboxes.items) = Len(InPhrases)
    /\ Len(InPhrases) >= 1
    /\ \A k \in 1..Len(InPhrases) :
           /\ CountOf(PhraseContent(k), "<") = 0
           /\ in_bboxes.items[k].kind # "none"
           /\ Len(GroupBoxes(in_bboxes.items[k])) >= 1
           /\ \A b \in 1..Len(GroupBoxes(in_bboxes.items[k])) :
                  Len(GroupBoxes(in_bboxes.items[k])[b]) = 2

\* ... whose phrases are not blank, with no "<" outside the phrase spans and
\* every index the index of a patch index token
WellFormedGrounding ==
    /\ PhrasesWithIndexGroups
    /\ CountOf(in_text, "<") = 2 * Len(InPhrases)
    /\ \A k \in 1..Len(InPhrases) :
           /\ strip(PhraseContent(k)) # <<>>
           /\ \A b \in 1..Len(GroupBoxes(in_bboxes.items[k])) :
                  \A c \in 1..2 :
                      GroupBoxes(in_bboxes.items[k])[b][c] \in 0..(NumPatchIndexTokens - 1)

\* P as the normalizer leaves it between <phrase> and </phrase>
SpacedName(P) == (IF P[1] = " " THEN <<>> ELSE <<" ">>) \o rstrip(P)

(* C1 as stated: extraction applied to the output of                       *)
(* _insert_patch_index_tokens returns the k phrases in order with the      *)
(* names P_i and the supplied groups.                                      *)
C1_InsertThenExtract ==
    (pc = "extracted" /\ norm_runs = 0 /\ PhrasesWithIndexGroups) =>
        /\ Len(entities) = Len(InPhrases)
        /\ \A k \in 1..Len(entities) :
               /\ entities[k].name = PhraseContent(k)
               /\ entities[k].bboxes = GroupBoxes(in_bboxes.items[k])

(* C1 amended: extraction applied to the output of                         *)
(* _insert_patch_index_tokens finds nothing; applied after                 *)
(* _add_remove_spaces_around_tag_tokens it returns the k phrases in order  *)
(* with the supplied groups, each name being P_i without its trailing      *)
(* whitespace and with one space in front unless P_i starts with a space.  *)
C1_InsertSpacesExtract ==
    (pc = "extracted" /\ PhrasesWithIndexGroups) =>
        /\ norm_runs = 0 => entities = <<>>
        /\ (norm_runs >= 1 /\ WellFormedGrounding) =>
               /\ Len(entities) = Len(InPhrases)
               /\ \A k \in 1..Len(entities) :
                      /\ entities[k].name = SpacedName(PhraseContent(k))
                      /\ entities[k].bboxes = GroupBoxes(in_bboxes.items[k])

\* two phrases, the second with two boxes, extracted after one normalization
C1_Witness ==
    /\ pc = "extracted" /\ norm_runs = 1 /\ WellFormedGrounding
    /\ Len(InPhrases) = 2
    /\ in_bboxes.items[1] = ListGroup(<<(<<3, 3>>)>>)
    /\ in_bboxes.items[2] = ListGroup(<<(<<10, 12>>), (<<5, 5>>)>>)
    /\ entities[1].name = <<" ">> \o Cat
    /\ Len(entities) = 2

CountMismatch == Len(InPhrases) # Len(in_bboxes.items)

(* C2 as stated: for bboxes that are not None, _insert_patch_index_tokens  *)
(* raises exactly when the number of phrase matches differs from the       *)
(* number of groups.                                                       *)
C2_RaisesOnAnyMismatch ==
    (pc # "raw" /\ in_bboxes.kind = "list") => (pc = "error" <=> CountMismatch)

(* C2 amended: for a non-empty list of groups _insert_patch_index_tokens   *)
(* raises exactly when the number of phrase matches differs from the       *)
(* number of groups; for None and for an empty list it returns the text    *)
(* unchanged, whatever the number of matches.                              *)
C2_RaisesOnMismatchOfNonEmpty ==
    /\ (pc # "raw" /\ in_bboxes.kind = "list" /\ Len(in_bboxes.items) >= 1) =>
           (pc = "error" <=> CountMismatch)
    /\ (pc # "raw" /\ (in_bboxes.kind = "none" \/ Len(in_bboxes.items) = 0)) => pc # "error"
    /\ (pc = "inserted" /\ (in_bboxes.kind = "none" \/ Len(in_bboxes.items) = 0)) =>
           text = in_text

\* a call that raised: two phrases against one group
C2_Witness ==
    /\ pc = "error"
    /\ Len(InPhrases) = 2
    /\ in_bboxes.kind = "list" /\ Len(in_bboxes.items) = 1

-----------------------------------------------------------------------------
\* the padded length of the longest tokenized row of the batch
LongestPadded ==
    Max({PaddedLength(call.text_encoding[k], call.p) : k \in 1..Len(call.text_encoding)})

(* C3: after a batched call with padding enabled every row of input_ids,   *)
(* of image_features_mask and of attention_mask has the padded length of   *)
(* the longest tokenized row, whatever the order of the examples.          *)
C3_RowsPaddedToLongest ==
    (call.pc = "returned" /\ call.p.batched /\ call.p.padding # "do_not_pad") =>
        \A k \in 1..Len(call.input_ids) :
            /\ Len(call.input_ids[k]) = LongestPadded
            /\ Len(call.image_features_mask[k]) = LongestPadded
            /\ Len(call.attention_mask[k]) = LongestPadded

-----------------------------------------------------------------------------
\* the offsets start_index .. start_index + num_image_tokens - 1
ImageOffsets == StartIndex(call.p)..(StartIndex(call.p) + call.p.num_image_tokens - 1)

\* the mask that is 1 at the image offsets and 0 elsewhere, of length n
MaskOfLength(n) == [i \in 1..n |-> IF i - 1 \in ImageOffsets THEN 1 ELSE 0]

\* the tokenized row holds the whole of img_info
HoldsImageInfo(row) == Len(row) >= StartIndex(call.p) + call.p.num_image_tokens + 1

(* C4 as stated: the expansion replaces the one placeholder image token,   *)
(* the token before start_index, by the num_image_tokens ids from          *)
(* first_image_token_id on, and the mask has the length of the result and  *)
(* is 1 at those ids: [bos, placeholder, eos] with 4 image tokens from 100 *)
(* gives [bos, 100, 101, 102, 103, eos] and [0, 1, 1, 1, 1, 0].            *)
C4_ReplacesOnePlaceholder ==
    call.pc = "expanded" =>
        \A k \in 1..Len(call.text_encoding) :
            LET row == call.text_encoding[k]
                at == StartIndex(call.p) - 1
                expected == ListHead(row, at) \o ImageTokenIds(call.p) \o ListFrom(row, at + 1)
            IN /\ call.input_ids[k] = expected
               /\ call.image_features_mask[k] =
                      [i \in 1..Len(expected) |->
                          IF i - 1 \in at..(at + call.p.num_image_tokens - 1) THEN 1 ELSE 0]

(* C4 amended: for a tokenized row that holds the whole image block the    *)
(* expansion writes the num_image_tokens ids from first_image_token_id on  *)
(* over the fake image tokens at start_index and after, leaves every other *)
(* token and the length of the row as they are, and the mask has that      *)
(* length and is 1 at the ids written.                                     *)
C4_OverwritesFakeTokens ==
    call.pc = "expanded" =>
        \A k \in 1..Len(call.text_encoding) :
            LET row == call.text_encoding[k] IN
            HoldsImageInfo(row) =>
                /\ call.input_ids[k] =
                       [i \in 1..Len(row) |->
                           IF i - 1 \in ImageOffsets
                           THEN FirstImageTokenId(call.p) + (i - 1 - StartIndex(call.p))
                           ELSE row[i]]
                /\ call.image_features_mask[k] = MaskOfLength(Len(row))

\* [bos, <image>, 4 fake <image>, </image>, eos] expanded with ids from 100
C4_Witness ==
    /\ call.pc = "expanded"
    /\ call.text_encoding[1] =
           <<bos_token_id>> \o Repeat(image_token_id, 5) \o <<eoi_token_id, eos_token_id>>
    /\ call.input_ids[1] =
           <<bos_token_id, image_token_id, 100, 101, 102, 103, eoi_token_id, eos_token_id>>
    /\ call.image_features_mask[1] = <<0, 0, 1, 1, 1, 1, 0, 0>>

(* C5: for every row the tokenizer returns, of any length, the             *)
(* image_features_mask row made for it has the length of its input_ids row *)
(* and is 1 at the offsets start_index .. start_index + num_image_tokens - *)
(* 1 and 0 everywhere else.                                                *)
C5_MaskAlignedWithIds ==
    call.pc = "expanded" =>
        \A k \in 1..Len(call.input_ids) :
            call.image_features_mask[k] = MaskOfLength(Len(call.input_ids[k]))

-----------------------------------------------------------------------------
\* the entities a phrase names: the name of a phrase holds no "<", a name the
\* extraction makes up for a bare block starts with one
PhraseEntities == {k \in 1..Len(entities) : entities[k].name = <<>> \/ entities[k].name[1] # "<"}

(* C6: every phrase-wrapped entity that                                    *)
(* clean_text_and_extract_entities_with_bboxes returns has a span inside   *)
(* the returned text, 0 <= start <= end <= len(T), and the text at that    *)
(* span is the entity's name.                                              *)
C6_SpanIndexesName ==
    pc = "cleaned" =>
        \A k \in PhraseEntities :
            LET start == entities[k].span[1]
                end == entities[k].span[2]
            IN /\ 0 <= start /\ start <= end /\ end <= Len(text)
               /\ Slice(text, start, end) = entities[k].name

-----------------------------------------------------------------------------
\* the offsets of the <object> blocks of the text that no phrase precedes
BareBlockOffsets ==
    {i \in 0..Len(text) - 1 :
        /\ StartsWithAt(text, i, ObjectOpen)
        /\ ~(i >= Len(PhraseClose) /\ StartsWithAt(text, i - Len(PhraseClose), PhraseClose))}

\* the index pairs of the block at offset i, as they are written
PairTexts(i) ==
    split(Slice(text, i + Len(ObjectOpen), FindLit(text, ObjectClose, i)), Delimiter)

\* the two numbers of a written pair
PairOfText(lit) ==
    LET n == DigitRun(lit, Len(PatchIndexPrefix)) IN
    <<int(Slice(lit, Len(PatchIndexPrefix), Len(PatchIndexPrefix) + n)),
      int(Slice(lit, 2 * Len(PatchIndexPrefix) + n + 1, Len(lit) - 1))>>

\* the pair spelt from its numbers, in decimal without padding
PairSpeltFromNumbers(pair) ==
    PatchIndexPrefix \o str(pair[1]) \o <<">">> \o PatchIndexPrefix \o str(pair[2]) \o <<">">>

\* the entities with the zero-width span at offset i
EntitiesAt(i) == SelectSeq(entities, LAMBDA e : e.span = <<i, i>>)

(* C7 as stated: a bare <object> block yields one entity per index pair,   *)
(* in order, each with the zero-width span at the start of the block, a    *)
(* bbox list holding that pair alone and, as its name, the text of the     *)
(* pair as the input writes it.                                            *)
C7_NameIsWrittenPair ==
    pc = "extracted" =>
        \A i \in BareBlockOffsets :
            /\ Len(EntitiesAt(i)) = Len(PairTexts(i))
            /\ \A k \in 1..Len(PairTexts(i)) :
                   /\ EntitiesAt(i)[k].bboxes = <<PairOfText(PairTexts(i)[k])>>
                   /\ EntitiesAt(i)[k].name = PairTexts(i)[k]

(* C7 amended: a bare <object> block yields one entity per index pair, in  *)
(* order, each with the zero-width span at the start of the block, a bbox  *)
(* list holding that pair alone and, as its name, the two patch index tags *)
(* spelt again from the parsed numbers, without the zero padding of the    *)
(* input.                                                                  *)
C7_NameIsSpeltFromNumbers ==
    pc = "extracted" =>
        \A i \in BareBlockOffsets :
            /\ Len(EntitiesAt(i)) = Len(PairTexts(i))
            /\ \A k \in 1..Len(PairTexts(i)) :
                   /\ EntitiesAt(i)[k].bboxes = <<PairOfText(PairTexts(i)[k])>>
                   /\ EntitiesAt(i)[k].name = PairSpeltFromNumbers(PairOfText(PairTexts(i)[k]))

\* a bare block of two pairs, the first written <patch_index_0012><patch_index_0034>
C7_Witness ==
    /\ pc = "extracted"
    /\ \E i \in BareBlockOffsets :
           /\ Len(PairTexts(i)) = 2
           /\ PairTexts(i)[1] = PatchIndexToken(12) \o PatchIndexToken(34)
           /\ Len(EntitiesAt(i)) = 2
           /\ EntitiesAt(i)[1].name # PairTexts(i)[1]
           /\ EntitiesAt(i)[2].bboxes = <<(<<5, 1023>>)>>

-----------------------------------------------------------------------------
(* C8: tag spacing normalization is idempotent: a second run of            *)
(* _add_remove_spaces_around_tag_tokens leaves the text of the first run   *)
(* unchanged.                                                              *)
C8_Idempotent == (pc = "spaced" /\ norm_runs = 2) => text = prev_text

\* a second run on a text the first run rewrote, with a tab next to a tag
C8_Witness ==
    /\ pc = "spaced" /\ norm_runs = 2
    /\ text # in_text
    /\ \E i \in 1..Len(in_text) - 1 :
           \/ in_text[i] = "\t" /\ in_text[i + 1] = "<"
           \/ in_text[i] = ">" /\ in_text[i + 1] = "\t"

-----------------------------------------------------------------------------
\* the offsets at which a tag of the vocabulary occurs in s
TagOffsets(s) == {i \in 0..Len(s) - 1 : TagLenAt(s, i) > 0}

\* the tag at offset i is followed by text that is not a tag
FollowedByText(s, i) ==
    LET e == i + TagLenAt(s, i) IN e < Len(s) /\ TagLenAt(s, e) = 0

NoSpaceBeforeTag(s) == \A i \in TagOffsets(s) : i > 0 => s[i] \notin Whitespace

(* C9 as stated: in the output of _add_remove_spaces_around_tag_tokens no   *)
(* tag is preceded by whitespace and every tag followed by non-tag text is *)
(* followed by exactly one space.                                          *)
C9_ExactlyOneSpace ==
    pc = "spaced" =>
        /\ NoSpaceBeforeTag(text)
        /\ \A i \in TagOffsets(text) :
               FollowedByText(text, i) =>
                   LET e == i + TagLenAt(text, i) IN
                   /\ text[e + 1] = " "
                   /\ ~(/\ e + 2 < Len(text)
                         /\ text[e + 2] = " "
                         /\ text[e + 3] \notin Whitespace
                         /\ TagLenAt(text, e + 2) = 0)

(* C9 amended: in the output no tag is preceded by whitespace and every    *)
(* tag followed by non-tag text is followed by at least one space.         *)
C9_AtLeastOneSpace ==
    pc = "spaced" =>
        /\ NoSpaceBeforeTag(text)
        /\ \A i \in TagOffsets(text) :
               FollowedByText(text, i) => text[i + TagLenAt(text, i) + 1] = " "

\* a first run that removed whitespace before a tag and added a space after one
C9_Witness ==
    /\ pc = "spaced" /\ norm_runs = 1
    /\ ~NoSpaceBeforeTag(prev_text)
    /\ \E i \in TagOffsets(prev_text) :
           /\ FollowedByText(prev_text, i)
           /\ prev_text[i + TagLenAt(prev_text, i) + 1] \notin Whitespace
    /\ \E i \in TagOffsets(text) : FollowedByText(text, i)
-----------------------------------------------------------------------------
\* a < b for rationals
Less(a, b) == a[1] * b[2] < b[1] * a[2]

\* 0 <= x1 < x2 <= 1 and 0 <= y1 < y2 <= 1
ProperBox(bbox) == Less(bbox[1], bbox[3]) /\ Less(bbox[2], bbox[4])

SingleCellBox(i, g) ==
    <<Rat(i % g, g), Rat(i \div g, g), Rat((i % g) + 1, g), Rat((i \div g) + 1, g)>>

\* the decoded caption, its phrase named name: the text without tags and
\* stripped, and one entity with the box of the cell
DecodedCaption(A, P, digits, B, name) ==
    /\ text = strip(A \o P \o B)
    /\ Len(entities) = 1
    /\ entities[1].name = name
    /\ entities[1].bboxes = <<SingleCellBox(int(digits), grid)>>

(* C12 as stated: clean_text_and_extract_entities_with_bboxes on a caption *)
(* A<phrase>P</phrase><object><patch_index_i><patch_index_i></object>B,    *)
(* after </image> or not, returns the text strip(A + P + B) and exactly    *)
(* one entity, named P, whose only bbox is the box of cell i.              *)
C12_EntityNamedP ==
    \A c \in BOOLEAN \X CaptionLeads \X CaptionPhrases \X CaptionIndexDigits \X CaptionTails :
        (pc = "cleaned" /\ in_text = Caption(c[1], c[2], c[3], c[4], c[5])) =>
            DecodedCaption(c[2], c[3], c[4], c[5], c[3])

(* C12: for a non-empty P, clean_text_and_extract_entities_with_bboxes on  *)
(* such a caption returns the text strip(A + P + B) and exactly one        *)
(* entity, named strip(P), whose only bbox is the box of cell i.           *)
C12_EntityNamedStrippedP ==
    \A c \in BOOLEAN \X CaptionLeads \X CaptionPhrases \X CaptionIndexDigits \X CaptionTails :
        (pc = "cleaned" /\ c[3] # <<>> /\ in_text = Caption(c[1], c[2], c[3], c[4], c[5])) =>
            DecodedCaption(c[2], c[3], c[4], c[5], strip(c[3]))

\* </image>An apple <phrase>apple</phrase><object><patch_index_0012>
\* <patch_index_0012></object> is red. on the grid of side 32
C12_Witness ==
    /\ pc = "cleaned" /\ grid = 32
    /\ in_text = Caption(TRUE, <<"A", "n", " ", "a", "p", "p", "l", "e", " ">>, Apple,
                         <<"0", "0", "1", "2">>,
                         <<" ", "i", "s", " ", "r", "e", "d", ".">>)
    /\ text = <<"A", "n", " ", "a", "p", "p", "l", "e", " ">> \o Apple
                  \o <<" ", "i", "s", " ", "r", "e", "d", ".">>
    /\ Len(entities) = 1
    /\ entities[1].name = Apple
    /\ entities[1].bboxes = <<(<<Rat(12, 32), Rat(0, 32), Rat(13, 32), Rat(1, 32)>>)>>

\* s with the strings of inserts put in at their offsets; inserts is a
\* sequence of <<offset, string>> with the offsets in order
RECURSIVE InsertedAt(_, _)
InsertedAt(s, inserts) ==
    IF inserts = <<>> THEN s
    ELSE LET last == inserts[Len(inserts)]
         IN InsertedAt(Slice(s, 0, last[1]), SubSeq(inserts, 1, Len(inserts) - 1))
                \o last[2] \o SliceFrom(s, last[1])

\* an index written with at least four digits
PaddedIndex(idx) ==
    LET d == StrNat(idx) IN (IF Len(d) >= 4 THEN <<>> ELSE Repeat("0", 4 - Len(d))) \o d

\* the pair of patch index tokens of a box
PairOfBox(box) ==
    LET idx == IF Len(box) = 2 THEN box
               ELSE coordinate_to_patch_index(box, IntSqrt(NumPatchIndexTokens))
    IN PatchIndexPrefix \o PaddedIndex(idx[1]) \o <<">", " ">>
           \o PatchIndexPrefix \o PaddedIndex(idx[2]) \o <<">">>

\* the block of a group: nothing for None and for an empty list
BlockOfGroup(g) ==
    IF g.kind = "none" \/ GroupBoxes(g) = <<>> THEN <<>>
    ELSE ObjectOpen \o <<" ">>
             \o JoinWith(<<" ">> \o Delimiter \o <<" ">>,
                         [b \in 1..Len(GroupBoxes(g)) |-> PairOfBox(GroupBoxes(g)[b])])
             \o <<" ">> \o ObjectClose

(* C13: when the number of groups equals the number of phrases,            *)
(* _insert_patch_index_tokens returns the input text with the block of     *)
(* each group put in right after the </phrase> of its phrase and nothing   *)
(* else changed: no block for a group that is None or an empty list, and   *)
(* otherwise <object>, one pair of patch index tokens per box in order,    *)
(* separated by </delimiter_of_multi_objects/>, each index written with at *)
(* least 4 digits, a single tuple counting as a group of one, </object>.   *)
C13_OnlyInserts ==
    (pc = "inserted" /\ in_bboxes.kind = "list"
        /\ Len(in_bboxes.items) = Len(InPhrases)) =>
        text = InsertedAt(in_text,
                          [k \in 1..Len(InPhrases) |->
                              <<InPhrases[k][2], BlockOfGroup(in_bboxes.items[k])>>])

\* an empty list for the first phrase, a tuple for the second, text after
\* the last phrase
C13_Witness ==
    /\ pc = "inserted"
    /\ in_text = PhraseOpen \o Cat \o PhraseClose
                     \o PhraseOpen \o <<" ">> \o Dog \o <<"\t">> \o PhraseClose
                     \o <<" ", "a", "n", "d", " ">>
    /\ in_bboxes = BboxList(<<ListGroup(<<>>), TupleGroup(<<3, 12345>>)>>)
    /\ text = PhraseOpen \o Cat \o PhraseClose
                  \o PhraseOpen \o <<" ">> \o Dog \o <<"\t">> \o PhraseClose
                  \o ObjectOpen \o <<" ">>
                  \o PatchIndexPrefix \o <<"0", "0", "0", "3", ">", " ">>
                  \o PatchIndexPrefix \o <<"1", "2", "3", "4", "5", ">", " ">>
                  \o ObjectClose
                  \o <<" ", "a", "n", "d", " ">>

\* the spans <<start, end>> of <phrase> ... </phrase> in s from offset pos
\* on, line breaks allowed between the tags
RECURSIVE PhraseSpansFrom(_, _)
PhraseSpansFrom(s, pos) ==
    LET i == FindLit(s, PhraseOpen, pos) IN
    IF i < 0 THEN <<>>
    ELSE LET j == FindLit(s, PhraseClose, i + Len(PhraseOpen)) IN
         IF j < 0 THEN <<>>
         ELSE <<(<<i, j + Len(PhraseClose)>>)>> \o PhraseSpansFrom(s, j + Len(PhraseClose))

\* P of a span
SpanContent(span) ==
    Slice(in_text, span[1] + Len(PhraseOpen), span[2] - Len(PhraseClose))

\* the spans are the k phrases of the input, non-blank and without "<", and
\* bboxes holds k non-empty groups of index pairs in range
GroundingData(spans) ==
    /\ in_bboxes.kind = "list"
    /\ Len(in_bboxes.items) = Len(spans)
    /\ \A k \in 1..Len(spans) :
           /\ strip(SpanContent(spans[k])) # <<>>
           /\ CountOf(SpanContent(spans[k]), "<") = 0
           /\ in_bboxes.items[k].kind # "none"
           /\ Len(GroupBoxes(in_bboxes.items[k])) >= 1
           /\ \A b \in 1..Len(GroupBoxes(in_bboxes.items[k])) :
                  /\ Len(GroupBoxes(in_bboxes.items[k])[b]) = 2
                  /\ \A c \in 1..2 :
                         GroupBoxes(in_bboxes.items[k])[b][c] \in 0..(NumPatchIndexTokens - 1)

\* no line break in a phrase and no "<" outside the phrase tags
PlainGrounding(spans) ==
    /\ CountOf(in_text, "<") = 2 * Len(spans)
    /\ \A k \in 1..Len(spans) : CountOf(SpanContent(spans[k]), "\n") = 0

\* nothing is raised, and the decoded entities are the phrases, stripped,
\* each with the coordinates of its pairs
PipelineInverts(spans) ==
    /\ pc # "error"
    /\ pc = "cleaned" =>
           /\ Len(entities) = Len(spans)
           /\ \A k \in 1..Len(entities) :
                  /\ entities[k].name = strip(SpanContent(spans[k]))
                  /\ entities[k].bboxes =
                         [b \in 1..Len(GroupBoxes(in_bboxes.items[k])) |->
                             patch_index_to_coordinate(GroupBoxes(in_bboxes.items[k])[b][1],
                                                       GroupBoxes(in_bboxes.items[k])[b][2],
                                                       grid)]

(* C14 as stated: for a text whose k phrases are non-blank and without "<" *)
(* and k non-empty groups of index pairs in range,                         *)
(* clean_text_and_extract_entities_with_bboxes(preprocess_text(text,       *)
(* bboxes), g) returns k entities in phrase order, entity i named          *)
(* strip(P_i) with the coordinates of the pairs of group i.                *)
C14_PipelineInverse ==
    GroundingData(PhraseSpansFrom(in_text, 0)) => PipelineInverts(PhraseSpansFrom(in_text, 0))

(* C14: the same, for a text whose phrases hold no line break and that has *)
(* no "<" outside its phrase tags.                                         *)
C14_PlainPipelineInverse ==
    (GroundingData(PhraseSpansFrom(in_text, 0)) /\ PlainGrounding(PhraseSpansFrom(in_text, 0)))
        => PipelineInverts(PhraseSpansFrom(in_text, 0))

\* two phrases, the second with two boxes, decoded on the grid of side 2
C14_Witness ==
    /\ pc = "cleaned" /\ grid = 2
    /\ in_text = PhraseOpen \o Cat \o PhraseClose
                     \o PhraseOpen \o <<" ">> \o Dog \o <<"\t">> \o PhraseClose
    /\ in_bboxes = BboxList(<<ListGroup(<<(<<3, 3>>)>>),
                              ListGroup(<<(<<10, 12>>), (<<5, 5>>)>>)>>)
    /\ Len(entities) = 2
    /\ entities[1].name = Cat
    /\ entities[1].bboxes = <<(<<Rat(1, 2), Rat(1, 2), Rat(1, 1), Rat(1, 1)>>)>>
    /\ entities[2].name = Dog
    /\ entities[2].bboxes = <<(<<Rat(0, 1), Rat(5, 2), Rat(1, 2), Rat(7, 2)>>),
                              (<<Rat(1, 2), Rat(1, 1), Rat(1, 1), Rat(3, 2)>>)>>

\* the offset of the first fake <image> token: 2 after a bos token, 1 without
SpliceStart == IF call.p.add_special_tokens THEN 2 ELSE 1

\* the id written first: first_image_token_id, by default the id after <unk>
SpliceFirstId ==
    IF call.p.first_image_token_id.given THEN call.p.first_image_token_id.value
    ELSE unk_token_id + 1

(* C15: for a tokenized row of length L >= start_index + num_image_tokens, *)
(* the input_ids row written by the splice of __call__ has length L, holds *)
(* first_image_token_id + j at offset start_index + j for every            *)
(* 0 <= j < num_image_tokens, and equals the tokenized row at every other  *)
(* offset.                                                                 *)
C15_SplicePreservesRow ==
    call.pc = "expanded" =>
        \A k \in 1..Len(call.text_encoding) :
            Len(call.text_encoding[k]) >= SpliceStart + call.p.num_image_tokens =>
                /\ Len(call.input_ids[k]) = Len(call.text_encoding[k])
                /\ \A j \in 0..(call.p.num_image_tokens - 1) :
                       call.input_ids[k][SpliceStart + j + 1] = SpliceFirstId + j
                /\ \A i \in 0..(Len(call.text_encoding[k]) - 1) :
                       i \notin SpliceStart..(SpliceStart + call.p.num_image_tokens - 1) =>
                           call.input_ids[k][i + 1] = call.text_encoding[k][i + 1]

\* a row without bos token: <image>, 4 fake <image>, </image> and one word,
\* the ids written from the default first id on
C15_Witness ==
    /\ call.pc = "expanded"
    /\ ~call.p.add_special_tokens
    /\ ~call.p.first_image_token_id.given
    /\ call.text_encoding[1] = Repeat(image_token_id, 5) \o <<eoi_token_id, 1001>>
    /\ call.input_ids[1] =
           <<image_token_id, unk_token_id + 1, unk_token_id + 2, unk_token_id + 3,
             unk_token_id + 4, eoi_token_id, 1001>>
====
